---------------------------- MODULE Spec2Model ----------------------------
(***************************************************************************)
(* A model of pinboardzine.py: the zine() command that turns the oldest    *)
(* unread Pinboard bookmarks into a Kindle periodical, and the three       *)
(* document builders it calls.                                             *)
(*                                                                         *)
(* Text is modelled as a sequence of tokens: a token is either a run of    *)
(* word characters ("http", "x", "a") or one non-word character (":",      *)
(* "/", "_", "-").  The empty string is << >>.  A JSON null is <<NULL>>.   *)
(***************************************************************************)
EXTENDS Integers, Sequences, FiniteSets, TLC

VARIABLES
    pc,                 \* position of zine() in its body
    error,              \* the exception that ended the run ("" when none)
    world,              \* the world this run happens in (see Net)
    items,              \* the --items argument
    skip,               \* the --skip argument, as a set
    data,               \* the feed as Pinboard returned it (newest first)
    articles,           \* data[-items:] reversed
    idx,                \* position of the for loop in articles
    fate,               \* terminal state of every bookmark of articles
    article,            \* the dict of the bookmark being processed
    readable,           \* the Readability response for it
    matches,            \* the src attributes SRC_ATTR_RE finds in the content
    k,                  \* the match re.sub is at
    out,                \* what download_image returned for matches 1..k-1
    downloaded_images,  \* the closure's set of image URLs seen
    requests,           \* image URLs requested for this article, in order
    saved,              \* the list of saved articles
    zinedir,            \* the files written to the temporary directory
    uid,                \* uuid.uuid4().hex of this run
    built,              \* results of the calls of the three builders
    now                 \* the UTC clock

vars == <<pc, error, world, items, skip, data, articles, idx, fate, article,
          readable, matches, k, out, downloaded_images, requests, saved,
          zinedir, uid, built, now>>

---------------------------------------------------------------------------
(* Bounds of the model. *)

\* longest feed in the ordering scenarios
MaxFeed == 4
\* most src attributes in one article body
MaxRefs == 2
\* last instant of the clock
MaxClock == 1
\* most calls of the builders in the builder specification
MaxCalls == 2

---------------------------------------------------------------------------
(* Text. *)

NULL == "<null>"
None == <<NULL>>
Empty == << >>

\* Python truthiness of a str-or-None value.
Truthy(v) == v # Empty /\ v # None

\* Python's `a or b`.
Or(a, b) == IF Truthy(a) THEN a ELSE b

\* str.format of one value: None is rendered as the word None.
Format(v) == IF v = None THEN <<"None">> ELSE v

NonWord == {":", "/", "_", "-", ".", "?", "=", " ", "#"}

\* Matches [\W_]: a character that is not alphanumeric.
IsNonWord(tok) == tok \in NonWord

RECURSIVE Collapse(_, _)
\* re.sub(r'[\W_]+', '-', s), left to right; inRun says the previous
\* character belonged to the run being replaced.
Collapse(s, inRun) ==
    IF s = << >> THEN << >>
    ELSE IF IsNonWord(Head(s))
         THEN (IF inRun THEN << >> ELSE <<"-">>) \o Collapse(Tail(s), TRUE)
         ELSE <<Head(s)>> \o Collapse(Tail(s), FALSE)

\* re.sub(r'[\W_]+', '-', url)
Slug(s) == Collapse(s, FALSE)

\* the filename of an article: the slug of its URL plus '.html'
ArticleFilename(url) == Slug(url) \o <<".html">>

---------------------------------------------------------------------------
(* URLs: scheme ":" "/" "/" host, then the path. *)

IsAbsolute(r) == Len(r) >= 2 /\ r[2] = ":"

Origin(b) == SubSeq(b, 1, 5)

RECURSIVE LastSlash(_, _)
LastSlash(b, j) == IF j <= 5 THEN 0 ELSE IF b[j] = "/" THEN j ELSE LastSlash(b, j - 1)

\* the base URL up to and including the last "/" of its path
Dir(b) == IF LastSlash(b, Len(b)) = 0 THEN Origin(b) \o <<"/">>
          ELSE SubSeq(b, 1, LastSlash(b, Len(b)))

\* urllib.parse.urljoin on absolute, root-relative and path-relative references
urljoin(b, r) ==
    IF r = << >> THEN b
    ELSE IF IsAbsolute(r) THEN r
    ELSE IF r[1] = "/" THEN Origin(b) \o r
    ELSE Dir(b) \o r

---------------------------------------------------------------------------
(* The image callback of re.sub: download_image(match). *)

ContentType(t, st) == [type |-> t, subtype |-> st]

\* the extension download_image appends for a content type
Extension(ct) ==
    IF ct \in {ContentType("image", "jpg"), ContentType("image", "jpeg")}
    THEN <<".jpeg">>
    ELSE IF ct = ContentType("image", "gif") THEN <<".gif">>
    ELSE IF ct = ContentType("image", "png") THEN <<".png">>
    ELSE << >>

\* img_url = urljoin(url, match.group('url'))
ImgUrl(url, ref) == urljoin(url, ref)

\* img_filename = re.sub(r'[\W_]+', '-', img_url), before any extension
ImgFilename(url, ref) == Slug(ImgUrl(url, ref))

\* the return value when the URL was seen before: the if block is skipped,
\* so img_filename is still the bare slug
ReusedFilename(url, ref) == ImgFilename(url, ref)

\* the return value after a successful download
DownloadedFilename(url, ref, ct) == ImgFilename(url, ref) \o Extension(ct)

\* a file of zinedir is added or overwritten
WriteFile(dir, name, content) ==
    [f \in (DOMAIN dir) \cup {name} |-> IF f = name THEN content ELSE dir[f]]

NoFiles == [f \in {} |-> << >>]

---------------------------------------------------------------------------
(* html_for_readable_article *)

html_for_readable_article(a, r, content) ==
    [ title    |-> a.title,
      meta     |-> (IF Truthy(a.author)
                    THEN <<[name |-> "author", content |-> a.author]>>
                    ELSE << >>)
                   \o (IF Truthy(a.description)
                       THEN <<[name |-> "description", content |-> a.description]>>
                       ELSE << >>),
      h3       |-> a.title,
      href     |-> a.u,
      linkText |-> r.domain,
      byline   |-> IF Truthy(a.author) THEN <<" by ">> \o a.author ELSE << >>,
      body     |-> content ]

---------------------------------------------------------------------------
(* The three builders. *)

IndexError == "IndexError"

PeriodicalTitle == <<"Pinboard Unread">>

nav_point(parent, order, title, src, kind, meta) ==
    [ id        |-> <<"nav-", order>>,
      playOrder |-> order,
      class     |-> kind,
      parent    |-> parent,
      label     |-> title,
      src       |-> src,
      meta      |-> meta ]

\* the mbp:meta children of an article's navPoint
NavMeta(a) ==
    (IF Truthy(a.description)
     THEN <<[name |-> "description", text |-> a.description]>> ELSE << >>)
    \o (IF Truthy(a.author)
        THEN <<[name |-> "author", text |-> a.author]>> ELSE << >>)

\* the target of the "Table of Contents" navPoint (playOrder 1)
TocPointSrc(arts) == arts[1].filename

\* the target of the navPoint of the article at position j (playOrder j + 2)
ArticlePointSrc(arts, j) ==
    IF j + 2 = 3 THEN arts[j].filename \o <<"#", "top">> ELSE arts[j].filename

\* contents_ncx_for_articles; articles[0] raises IndexError on an empty list
contents_ncx_for_articles(arts, ident, title) ==
    IF arts = << >> THEN [raised |-> IndexError]
    ELSE [ raised   |-> "",
           uid      |-> ident,
           docTitle |-> title,
           navMap   |->
             << nav_point(0, 1, <<"Table of Contents">>, TocPointSrc(arts),
                          "periodical", << >>),
                nav_point(1, 2, <<"Unread">>, arts[1].filename \o <<"#", "top">>,
                          "section", << >>) >>
             \o [j \in 1..Len(arts) |->
                   nav_point(2, j + 2, arts[j].title, ArticlePointSrc(arts, j),
                             "article", NavMeta(arts[j]))] ]

Item(href, id, mediaType) == [href |-> href, id |-> id, mediaType |-> mediaType]

\* a builder that forgets to track the image ids
ImageNeverSeen(img, seen) == FALSE

\* whether the image is skipped because its id was already given an item
ImageSeen(img, seen) == img.filename \in seen

RECURSIVE ImageItems(_, _)
\* the inner loop over article.get('images', ()): the items added, given the
\* ids seen so far
ImageItems(images, seen) ==
    IF images = << >> THEN << >>
    ELSE IF ImageSeen(Head(images), seen)
         THEN ImageItems(Tail(images), seen)
         ELSE <<Item(Head(images).filename, Head(images).filename, Head(images).type)>>
              \o ImageItems(Tail(images), seen \cup {Head(images).filename})

ItemIds(its) == {its[j].id : j \in 1..Len(its)}

RECURSIVE ManifestItems(_, _)
\* the outer loop: one item per article, then its images not yet seen
ManifestItems(arts, seen) ==
    IF arts = << >> THEN << >>
    ELSE LET a    == Head(arts)
             imgs == ImageItems(a.images, seen)
         IN  <<Item(a.filename, a.filename, ContentType("application", "xhtml+xml"))>>
             \o imgs
             \o ManifestItems(Tail(arts), seen \cup ItemIds(imgs))

\* the package document: metadata, manifest, spine and guide
OpfDocument(arts, ident, title, date) ==
    [ title    |-> title,
      uid      |-> ident,
      date     |-> date,
      manifest |-> << Item(<<"contents", ".ncx">>, <<"ncx">>,
                           ContentType("application", "x-dtbncx+xml")),
                      Item(<<"contents", ".html">>, <<"contents">>,
                           ContentType("application", "xhtml+xml")) >>
                   \o ManifestItems(arts, {}),
      spine    |-> [j \in 1..Len(arts) |-> arts[j].filename],
      guide    |-> << [title |-> <<"Beginning">>, type |-> "start",
                       href |-> <<"contents", ".html">>] >>
                   \o [j \in 1..Len(arts) |->
                         [title |-> arts[j].title, type |-> "text",
                          href |-> arts[j].filename]] ]

\* a builder that derives the identifier from the time of the call
ContentOpfTimestampId(arts, ident, title, utcnow) ==
    OpfDocument(arts, ident \o <<utcnow>>, title, utcnow)

\* content_opf_for_articles; utcnow is what datetime.utcnow() returns, and
\* its isoformat() is written to dc:date
content_opf_for_articles(arts, ident, title, utcnow) ==
    OpfDocument(arts, ident, title, utcnow)

\* contents_html_for_articles
contents_html_for_articles(arts, ident, title) ==
    [ title |-> title,
      items |-> [j \in 1..Len(arts) |->
                   [filename    |-> arts[j].filename,
                    title       |-> Format(arts[j].title),
                    description |-> Format(arts[j].description)]] ]

NoDoc == [absent |-> TRUE]

\* the three calls zine() makes, in its order: the first exception ends them
ManifestBuilder(arts, ident, title, utcnow) ==
    LET ncx == contents_ncx_for_articles(arts, ident, title)
    IN  IF ncx.raised # ""
        THEN [raised |-> ncx.raised, ncx |-> NoDoc, opf |-> NoDoc, toc |-> NoDoc]
        ELSE [raised |-> "",
              ncx    |-> ncx,
              opf    |-> content_opf_for_articles(arts, ident, title, utcnow),
              toc    |-> contents_html_for_articles(arts, ident, title)]

---------------------------------------------------------------------------
(* What the network can answer: bookmarks, Readability responses, image    *)
(* content types.  A run happens in one world; the worlds below are the    *)
(* families of inputs explored.                                            *)

\* longest feed in the metadata scenarios
MaxMetaFeed == 1
\* longest feed in the scenarios where articles embed images
MaxImageFeed == 2

Http(path) == <<"http", ":", "/", "/", "x", "/">> \o path

UrlA   == Http(<<"a">>)
UrlB   == Http(<<"b">>)
UrlC   == Http(<<"c">>)
UrlA_B == Http(<<"a", "_", "b">>)
UrlAhB == Http(<<"a", "-", "b">>)

\* three references to one image of the site, and one to another image
RefRel  == <<"i">>
RefRoot == <<"/", "i">>
RefAbs  == Http(<<"i">>)
RefJ    == <<"j">>

Bookmark(u, d, n) == [u |-> u, d |-> d, n |-> n]

Readable(title, domain, dek, excerpt, author, content) ==
    [title |-> title, domain |-> domain, dek |-> dek, excerpt |-> excerpt,
     author |-> author, content |-> content]

\* the feeds of at most maxLen bookmarks of a pool, newest first: dt is the
\* time the bookmark was made
FeedsOf(pool, maxLen) ==
    UNION { { [j \in 1..len |->
                 [u |-> f[j].u, d |-> f[j].d, n |-> f[j].n, dt |-> len + 1 - j]]
              : f \in [1..len -> pool] }
            : len \in 0..maxLen }

\* the feeds of FeedsOf that hold no URL twice
DistinctFeedsOf(pool, maxLen) ==
    { feed \in FeedsOf(pool, maxLen) :
        \A a, b \in 1..Len(feed) : a # b => feed[a].u # feed[b].u }

\* the bodies with at most maxLen src attributes drawn from refs
BodiesOf(refs, maxLen) == UNION { [1..len -> refs] : len \in 0..maxLen }

PlainReadable == Readable(<<"T">>, <<"x">>, Empty, <<"Ex">>, Empty, << >>)

AllTypes == { ContentType("image", "jpg"), ContentType("image", "jpeg"),
              ContentType("image", "gif"), ContentType("image", "png"),
              ContentType("image", "webp"), ContentType("text", "html") }

\* many bookmarks, some requested to be skipped, URLs that share a slug
OrderWorld ==
    [ feeds      |-> FeedsOf({ Bookmark(UrlA_B, <<"Foo">>, Empty),
                               Bookmark(UrlAhB, <<"Foo">>, Empty) }, MaxFeed),
      itemCounts |-> 0..MaxFeed,
      skips      |-> { {}, {UrlAhB} },
      readables  |-> { PlainReadable },
      types      |-> {} ]

\* few bookmarks, every combination of present and missing metadata
MetaWorld ==
    [ feeds      |-> FeedsOf({ Bookmark(UrlA, d, n) :
                                 d \in {Empty, <<"Foo">>},
                                 n \in {Empty, <<"Note">>} }, MaxMetaFeed),
      itemCounts |-> {20},
      skips      |-> { {} },
      readables  |-> { Readable(t, dom, dek, Empty, au, << >>) :
                         t \in {Empty, None, <<"T">>},
                         dom \in {<<"x">>, Empty},
                         dek \in {Empty, <<"Dek">>},
                         au \in {None, <<"Au">>} },
      types      |-> {} ]

\* one article whose body holds several references, every content type
DedupWorld ==
    [ feeds      |-> FeedsOf({ Bookmark(UrlA, <<"Foo">>, Empty) }, 1),
      itemCounts |-> {20},
      skips      |-> { {} },
      readables  |-> { Readable(<<"T">>, <<"x">>, Empty, Empty, Empty, body) :
                         body \in BodiesOf({RefRel, RefRoot, RefJ}, MaxRefs) },
      types      |-> AllTypes ]

\* several articles of one site that embed the same image
SharedWorld ==
    [ feeds      |-> DistinctFeedsOf({ Bookmark(UrlA, <<"Foo">>, Empty),
                                       Bookmark(UrlB, <<"Foo">>, Empty),
                                       Bookmark(UrlC, <<"Foo">>, Empty) },
                                     MaxImageFeed),
      itemCounts |-> {20},
      skips      |-> { {} },
      readables  |-> { Readable(<<"T">>, <<"x">>, Empty, Empty, Empty, body) :
                         body \in { << >>, <<RefRel>>, <<RefAbs>>, <<RefJ>> } },
      types      |-> { ContentType("image", "jpeg"), ContentType("image", "png") } ]

Worlds == { "order", "meta", "dedup", "shared" }

\* what the network can answer in world w
Net(w) ==
    CASE w = "order"  -> OrderWorld
      [] w = "meta"   -> MetaWorld
      [] w = "dedup"  -> DedupWorld
      [] w = "shared" -> SharedWorld

Uids == { <<"u1">>, <<"u2">> }

---------------------------------------------------------------------------
(* zine() *)

RECURSIVE Reverse(_)
Reverse(s) == IF s = << >> THEN << >> ELSE Reverse(Tail(s)) \o <<Head(s)>>

\* Python's seq[-n:] for n >= 0: -0 is 0, so n = 0 takes the whole list
LastItems(seq, n) ==
    IF n = 0 THEN seq
    ELSE IF n >= Len(seq) THEN seq
    ELSE SubSeq(seq, Len(seq) - n + 1, Len(seq))

\* the slice without the reversal
OldestFirstUnreversed(feed, n) == LastItems(feed, n)

\* articles = data[-items:]; articles.reverse()
OldestFirst(feed, n) == Reverse(LastItems(feed, n))

\* a fallback chain that prefers the bookmark's description
TitleDescriptionFirst(bookmark, r) ==
    LET t == Or(bookmark.d, r.title)
    IN  IF ~Truthy(t) THEN Format(r.domain) \o <<" article">> ELSE t

\* article['title'], lines 312-314
Title(bookmark, r) ==
    LET t == Or(r.title, bookmark.d)
    IN  IF ~Truthy(t) THEN Format(r.domain) \o <<" article">> ELSE t

\* article['description'], line 315
Description(bookmark, r) == Or(bookmark.n, Or(r.dek, r.excerpt))

\* the bookmark's dict after lines 312-316 (images stands for the list that
\* article.setdefault('images', list()) creates on the first download)
NewArticle(bookmark, r) ==
    [ u           |-> bookmark.u,
      d           |-> bookmark.d,
      n           |-> bookmark.n,
      dt          |-> bookmark.dt,
      title       |-> Title(bookmark, r),
      description |-> Description(bookmark, r),
      author      |-> r.author,
      images      |-> << >>,
      filename    |-> << >> ]

\* line 362: the dict gets its filename
WithFilename(a) == [a EXCEPT !.filename = ArticleFilename(a.u)]

Raise(exc) ==
    /\ pc' = "aborted"
    /\ error' = exc

Init ==
    /\ pc = "getpass"
    /\ error = ""
    /\ world \in Worlds
    /\ items \in Net(world).itemCounts
    /\ skip \in Net(world).skips
    /\ data = << >>
    /\ articles = << >>
    /\ idx = 0
    /\ fate = << >>
    /\ article = NoDoc
    /\ readable = NoDoc
    /\ matches = << >>
    /\ k = 0
    /\ out = << >>
    /\ downloaded_images = {}
    /\ requests = << >>
    /\ saved = << >>
    /\ zinedir = NoFiles
    /\ uid = << >>
    /\ built = << >>
    /\ now = 0

\* lines 257-260: the password prompt, which the user may interrupt
GetPass ==
    /\ pc = "getpass"
    /\ \/ pc' = "auth" /\ error' = error
       \/ pc' = "returned" /\ error' = error
    /\ UNCHANGED <<world, items, skip, data, articles, idx, fate, article,
                   readable, matches, k, out, downloaded_images, requests,
                   saved, zinedir, uid, built, now>>

\* lines 261-267: the secret is asked of Pinboard
Authenticate ==
    /\ pc = "auth"
    /\ \/ pc' = "feed" /\ error' = error
       \/ Raise("CommandError: password")
       \/ Raise("HTTPError: secret")
    /\ UNCHANGED <<world, items, skip, data, articles, idx, fate, article,
                   readable, matches, k, out, downloaded_images, requests,
                   saved, zinedir, uid, built, now>>

\* lines 269-289: the feed is fetched, cut to the oldest `items` and
\* reversed; the token prompt may be interrupted
FetchFeed ==
    /\ pc = "feed"
    /\ \/ /\ Raise("HTTPError: feed")
          /\ UNCHANGED <<data, articles, idx, fate>>
       \/ \E feed \in Net(world).feeds :
            /\ data' = feed
            /\ articles' = OldestFirst(feed, items)
            /\ fate' = [j \in 1..Len(OldestFirst(feed, items)) |-> "Pending"]
            /\ idx' = 1
            /\ \/ pc' = "loop"
               \/ pc' = "returned"
            /\ error' = error
    /\ UNCHANGED <<world, items, skip, article, readable, matches, k, out,
                   downloaded_images, requests, saved, zinedir, uid, built, now>>

InLoop == pc = "loop" /\ idx <= Len(articles)

\* lines 296-299
SkipAsRequested ==
    /\ InLoop
    /\ articles[idx].u \in skip
    /\ fate' = [fate EXCEPT ![idx] = "SkippedByRequest"]
    /\ idx' = idx + 1
    /\ UNCHANGED <<pc, error, world, items, skip, data, articles, article,
                   readable, matches, k, out, downloaded_images, requests,
                   saved, zinedir, uid, built, now>>

\* lines 304-309: the request raises (network error, timeout, status)
FetchError ==
    /\ InLoop
    /\ articles[idx].u \notin skip
    /\ fate' = [fate EXCEPT ![idx] = "SkippedFetchError"]
    /\ idx' = idx + 1
    /\ UNCHANGED <<pc, error, world, items, skip, data, articles, article,
                   readable, matches, k, out, downloaded_images, requests,
                   saved, zinedir, uid, built, now>>

\* lines 311-319: the response is read into the bookmark's dict
FetchArticle ==
    /\ InLoop
    /\ articles[idx].u \notin skip
    /\ \E r \in Net(world).readables :
         /\ readable' = r
         /\ article' = NewArticle(articles[idx], r)
         /\ matches' = r.content
    /\ k' = 1
    /\ out' = << >>
    /\ downloaded_images' = {}
    /\ requests' = << >>
    /\ pc' = "sub"
    /\ UNCHANGED <<error, world, items, skip, data, articles, idx, fate,
                   saved, zinedir, uid, built, now>>

InSub == pc = "sub" /\ k <= Len(matches)

\* lines 321-324 and 356: the URL was seen before
ImageSeenBefore ==
    /\ InSub
    /\ ImgUrl(article.u, matches[k]) \in downloaded_images
    /\ out' = Append(out, ReusedFilename(article.u, matches[k]))
    /\ k' = k + 1
    /\ UNCHANGED <<pc, error, world, items, skip, data, articles, idx, fate,
                   article, readable, matches, downloaded_images, requests,
                   saved, zinedir, uid, built, now>>

\* line 327: req.get raises; nothing catches it
ImageRequestRaises ==
    /\ InSub
    /\ ImgUrl(article.u, matches[k]) \notin downloaded_images
    /\ downloaded_images' = downloaded_images \cup {ImgUrl(article.u, matches[k])}
    /\ requests' = Append(requests, ImgUrl(article.u, matches[k]))
    /\ Raise("ConnectionError: image")
    /\ UNCHANGED <<world, items, skip, data, articles, idx, fate, article,
                   readable, matches, k, out, saved, zinedir, uid, built, now>>

\* lines 328-332: the status is an error
ImageStatusError ==
    /\ InSub
    /\ ImgUrl(article.u, matches[k]) \notin downloaded_images
    /\ downloaded_images' = downloaded_images \cup {ImgUrl(article.u, matches[k])}
    /\ requests' = Append(requests, ImgUrl(article.u, matches[k]))
    /\ out' = Append(out, matches[k])
    /\ k' = k + 1
    /\ UNCHANGED <<pc, error, world, items, skip, data, articles, idx, fate,
                   article, readable, matches, saved, zinedir, uid, built, now>>

\* lines 334-356: the image is saved and registered
ImageDownloaded ==
    /\ InSub
    /\ ImgUrl(article.u, matches[k]) \notin downloaded_images
    /\ downloaded_images' = downloaded_images \cup {ImgUrl(article.u, matches[k])}
    /\ requests' = Append(requests, ImgUrl(article.u, matches[k]))
    /\ \E ct \in Net(world).types :
         LET name == DownloadedFilename(article.u, matches[k], ct)
         IN  /\ zinedir' = WriteFile(zinedir, name,
                                     [image |-> ImgUrl(article.u, matches[k])])
             /\ article' = [article EXCEPT
                              !.images = Append(@, [filename |-> name, type |-> ct])]
             /\ out' = Append(out, name)
    /\ k' = k + 1
    /\ UNCHANGED <<pc, error, world, items, skip, data, articles, idx, fate,
                   readable, matches, saved, uid, built, now>>

\* lines 358-367: the article is written and appended to saved
SaveArticle ==
    /\ pc = "sub"
    /\ k > Len(matches)
    /\ article' = WithFilename(article)
    /\ zinedir' = WriteFile(zinedir, ArticleFilename(article.u),
                            html_for_readable_article(WithFilename(article),
                                                      readable, out))
    /\ saved' = Append(saved, WithFilename(article))
    /\ fate' = [fate EXCEPT ![idx] = "Included"]
    /\ idx' = idx + 1
    /\ pc' = "loop"
    /\ UNCHANGED <<error, world, items, skip, data, articles,
                   readable, matches, k, out, downloaded_images, requests,
                   uid, built, now>>

HasDuplicates(seq) == \E a, b \in 1..Len(seq) : a # b /\ seq[a] = seq[b]

\* lines 369-381: the metadata files are built and written
WriteMetadata ==
    /\ pc = "loop"
    /\ idx > Len(articles)
    /\ \E id \in Uids, t \in now..MaxClock :
         LET docs == ManifestBuilder(saved, id, PeriodicalTitle, t)
         IN  /\ now' = t
             /\ uid' = id
             /\ built' = Append(built, docs)
             /\ IF docs.raised # ""
                THEN /\ Raise(docs.raised)
                     /\ zinedir' = zinedir
                ELSE /\ pc' = "kindlegen"
                     /\ error' = error
                     /\ zinedir' =
                          WriteFile(WriteFile(WriteFile(zinedir,
                              <<"contents", ".ncx">>, docs.ncx),
                              <<"content", ".opf">>, docs.opf),
                              <<"contents", ".html">>, docs.toc)
    /\ UNCHANGED <<world, items, skip, data, articles, idx, fate, article,
                   readable, matches, k, out, downloaded_images, requests,
                   saved>>

\* lines 385-403: kindlegen builds the mobi, perhaps with warnings, or fails;
\* two manifest items with one id are fatal to it (comment of lines 156-158)
RunKindlegen ==
    /\ pc = "kindlegen"
    /\ \/ /\ ~HasDuplicates([j \in 1..Len(built[Len(built)].opf.manifest) |->
                               built[Len(built)].opf.manifest[j].id])
          /\ pc' = "done"
          /\ error' = error
          /\ zinedir' = NoFiles
       \/ /\ Raise("CommandError: kindlegen")
          /\ zinedir' = zinedir
    /\ UNCHANGED <<world, items, skip, data, articles, idx, fate, article,
                   readable, matches, k, out, downloaded_images, requests,
                   saved, uid, built, now>>

Next ==
    \/ GetPass
    \/ Authenticate
    \/ FetchFeed
    \/ SkipAsRequested
    \/ FetchError
    \/ FetchArticle
    \/ ImageSeenBefore
    \/ ImageRequestRaises
    \/ ImageStatusError
    \/ ImageDownloaded
    \/ SaveArticle
    \/ WriteMetadata
    \/ RunKindlegen

Spec == Init /\ [][Next]_vars

---------------------------------------------------------------------------
(* The builders on their own: one list of articles, one uid, one title,    *)
(* built again and again while the clock runs.                             *)

\* longest list of articles handed to the builders
MaxArticles == 2

Image(name, ct) == [filename |-> name, type |-> ct]

\* articles as zine() leaves them in saved
BuilderPool ==
    { [WithFilename(NewArticle(b, r)) EXCEPT !.images = imgs] :
        b \in { [u |-> u, d |-> <<"Foo">>, n |-> n, dt |-> 1] :
                  u \in {UrlA, UrlB}, n \in {<<"Note">>} },
        r \in { Readable(<<"T">>, <<"x">>, Empty, Empty, au, << >>) :
                  au \in {None, <<"Au">>} },
        imgs \in { << >>,
                   << Image(DownloadedFilename(UrlA, RefRel,
                                               ContentType("image", "png")),
                            ContentType("image", "png")) >> } }

BuilderInputs == UNION { [1..len -> BuilderPool] : len \in 0..MaxArticles }

InitBuilder ==
    /\ pc = "builder"
    /\ error = ""
    /\ world = "none"
    /\ items = 0
    /\ skip = {}
    /\ data = << >>
    /\ articles = << >>
    /\ idx = 0
    /\ fate = << >>
    /\ article = NoDoc
    /\ readable = NoDoc
    /\ matches = << >>
    /\ k = 0
    /\ out = << >>
    /\ downloaded_images = {}
    /\ requests = << >>
    /\ saved \in BuilderInputs
    /\ zinedir = NoFiles
    /\ uid \in Uids
    /\ built = << >>
    /\ now = 0

\* time passes
Tick ==
    /\ pc = "builder"
    /\ now < MaxClock
    /\ now' = now + 1
    /\ UNCHANGED <<pc, error, world, items, skip, data, articles, idx, fate,
                   article, readable, matches, k, out, downloaded_images,
                   requests, saved, zinedir, uid, built>>

\* lines 372-374 once more, on the same arguments
CallBuilder ==
    /\ pc = "builder"
    /\ Len(built) < MaxCalls
    /\ built' = Append(built, ManifestBuilder(saved, uid, PeriodicalTitle, now))
    /\ UNCHANGED <<pc, error, world, items, skip, data, articles, idx, fate,
                   article, readable, matches, k, out, downloaded_images,
                   requests, saved, zinedir, uid, now>>

NextBuilder == Tick \/ CallBuilder

SpecBuilder == InitBuilder /\ [][NextBuilder]_vars

---------------------------------------------------------------------------
(* The claims. *)

Built == {built[b] : b \in 1..Len(built)}

BuiltOk == {b \in Built : b.raised = ""}

FateIs(f) == {j \in 1..Len(fate) : fate[j] = f}

LoopOver == pc \in {"loop", "kindlegen", "done", "aborted"} /\ idx > Len(articles)

\* the local filenames download_image can give an image URL
ImageNames(u) == {Slug(u) \o e : e \in {<< >>, <<".jpeg">>, <<".gif">>, <<".png">>}}

\* the image URLs the bodies of the worlds refer to
ImageUrlPool == {ImgUrl(UrlA, RefRel), ImgUrl(UrlA, RefJ)}

\* the articles of a list that registered an image of URL u
ArticlesWithImage(arts, u) ==
    {a \in 1..Len(arts) :
       \E j \in 1..Len(arts[a].images) : arts[a].images[j].filename \in ImageNames(u)}

\* the positions of the manifest items with the given ids
ItemsWithId(manifest, ids) == {p \in 1..Len(manifest) : manifest[p].id \in ids}

\* C1: when article requests fail, the run is not aborted by it (only the
\* compile step may still fail, and an image request is another fault), every
\* bookmark whose request failed ends SkippedFetchError and every other
\* bookmark that was not excluded ends Included.
C1_FaultIsolation ==
    (FateIs("SkippedFetchError") # {} /\ error # "ConnectionError: image")
    => /\ pc = "aborted" => error = "CommandError: kindlegen"
       /\ LoopOver =>
            /\ \A j \in 1..Len(fate) :
                 /\ fate[j] \in {"SkippedFetchError", "SkippedByRequest", "Included"}
                 /\ fate[j] = "SkippedByRequest" <=> articles[j].u \in skip
            /\ Len(saved) = Cardinality(FateIs("Included"))

\* C2: the Included articles are bookmarks of the feed, among its `items`
\* oldest, and they appear oldest first: of two saved articles the earlier
\* one has the earlier bookmark.
C2_OrderPreserved ==
    /\ \A a, b \in 1..Len(saved) : a < b => saved[a].dt < saved[b].dt
    /\ \A a \in 1..Len(saved) :
         /\ \E j \in 1..Len(data) :
              data[j].dt = saved[a].dt /\ data[j].u = saved[a].u
         /\ items > 0 => saved[a].dt <= items

\* C2, witness: two articles are Included around a bookmark that was skipped or failed,
\* out of a feed that was cut to the requested count
C2_Witness ==
    /\ Len(articles) < Len(data)
    /\ Len(saved) >= 2
    /\ \E j \in 1..Len(fate) :
         /\ fate[j] \in {"SkippedFetchError", "SkippedByRequest"}
         /\ saved[1].dt < articles[j].dt
         /\ articles[j].dt < saved[2].dt

\* C3: when a body refers to one resolved image URL several times, the URL
\* is requested once, and once its image is registered every one of those
\* references is rewritten to the registered filename, extension included.
C3_ImageDedup ==
    \A p, q \in 1..Len(out) :
      (p < q /\ ImgUrl(article.u, matches[p]) = ImgUrl(article.u, matches[q]))
      => /\ Cardinality({j \in 1..Len(requests) :
                           requests[j] = ImgUrl(article.u, matches[p])}) = 1
         /\ \A j \in 1..Len(article.images) :
              article.images[j].filename \in ImageNames(ImgUrl(article.u, matches[p]))
              => /\ out[p] = article.images[j].filename
                 /\ out[q] = article.images[j].filename

\* C4: an image request that fails does not end the run, registers no
\* image, and every reference to that URL stays as it was in the body.
C4_ImageFailureIsolated ==
    /\ error # "ConnectionError: image"
    /\ \A p \in 1..Len(out) :
         LET u == ImgUrl(article.u, matches[p])
         IN  (/\ \E j \in 1..Len(requests) : requests[j] = u
              /\ \A j \in 1..Len(article.images) :
                   article.images[j].filename \notin ImageNames(u))
             => out[p] = matches[p]

C6_EmptyRunBuilds ==
    \A b \in Built :
      saved = << >> => (b.raised = "" /\ b.ncx # NoDoc /\ b.opf # NoDoc /\ b.toc # NoDoc)

\* C7: as stated, two calls of the builders with the same articles, uid and
\* title return identical documents.
C7_BuilderDeterministic ==
    \A a, b \in Built : a = b

\* C7: as amended, two such calls raise alike, return identical navigation
\* and table-of-contents documents, and package documents that differ in
\* nothing but the publication date.
C7_DeterministicButDate ==
    \A a, b \in Built :
      /\ a.raised = b.raised
      /\ a.ncx = b.ncx
      /\ a.toc = b.toc
      /\ a.raised = "" => [a.opf EXCEPT !.date = 0] = [b.opf EXCEPT !.date = 0]

\* C7, witness: the builders were called twice on a list of articles, at different times
C7_Witness ==
    /\ pc = "builder"
    /\ saved # << >>
    /\ Len(built) = 2
    /\ built[1].opf.date # built[2].opf.date

\* C8: the navigation document of N >= 1 articles has the play orders
\* 1..N+2: 1 is "Table of Contents" and targets the table-of-contents
\* document, 2 is "Unread" under it and targets the first article's top
\* anchor, 3..N+2 are the articles in order under "Unread", the first
\* targeting its top anchor and the others their documents.
C8_NavigationPlayOrder ==
    \A b \in BuiltOk :
      LET nav == b.ncx.navMap
          n   == Len(saved)
      IN  /\ Len(nav) = n + 2
          /\ \A p \in 1..Len(nav) : nav[p].playOrder = p
          /\ nav[1].label = <<"Table of Contents">>
          /\ nav[1].src = <<"contents", ".html">>
          /\ nav[2].label = <<"Unread">>
          /\ nav[2].parent = 1
          /\ nav[2].src = saved[1].filename \o <<"#", "top">>
          /\ \A j \in 1..n :
               /\ nav[j + 2].parent = 2
               /\ nav[j + 2].label = saved[j].title
               /\ nav[j + 2].src = IF j = 1 THEN saved[j].filename \o <<"#", "top">>
                                   ELSE saved[j].filename

\* C9: the title of an article is never empty: it is the extractor's title
\* when that is not empty, else the bookmark's description when that is not
\* empty, else "{domain} article"; the saved article keeps that title.
C9_TitleFallback ==
    /\ article # NoDoc =>
         /\ article.title # Empty
         /\ article.title # None
         /\ article.title =
              IF readable.title \notin {Empty, None} THEN readable.title
              ELSE IF article.d \notin {Empty, None} THEN article.d
              ELSE Format(readable.domain) \o <<" article">>
         /\ article.filename # << >> => saved[Len(saved)] = article
    /\ \A a \in 1..Len(saved) : saved[a].title \notin {Empty, None}

\* C9, witness: an article was Included whose extractor title is empty and whose
\* bookmark is described "Foo"
C9_Witness ==
    /\ Len(saved) >= 1
    /\ article = saved[Len(saved)]
    /\ readable.title = Empty
    /\ article.d = <<"Foo">>
    /\ article.title = <<"Foo">>

\* C10: no two Included articles share a filename, so neither the manifest
\* nor the spine holds two article items with one id.
C10_ArticleFilenamesUnique ==
    /\ \A a, b \in 1..Len(saved) : a # b => saved[a].filename # saved[b].filename
    /\ \A b \in BuiltOk :
         /\ ~HasDuplicates([p \in 1..Len(b.opf.manifest) |-> b.opf.manifest[p].id])
         /\ ~HasDuplicates(b.opf.spine)

===========================================================================
